---- MODULE Spec2Model ----
(***************************************************************************)
(* Model of the timeZest client library's resilient request core:          *)
(*   - makeRequest           (src/src/utils/makeRequest.ts)                *)
(*   - handleError           (src/src/utils/handleError.ts)                *)
(*   - makePaginatedRequest  (src/src/utils/makePaginatedRequest.ts)       *)
(*   - the facade's calls    (src/src/index.ts)                            *)
(*   - the TQL filter builder (src/src/utils/tqlFilter.ts)                 *)
(*                                                                         *)
(* Times are in milliseconds, as in the code.  Strings that the code       *)
(* inspects character by character are sequences of one-character strings. *)
(* An optional value (number | null) is a sequence of length at most one:  *)
(* <<>> is null / undefined, <<n>> is the number n.                        *)
(***************************************************************************)
EXTENDS Integers, Sequences, FiniteSets

VARIABLES
    maxRetryTimeMs,     \* config.maxRetryTimeMs of the API instance
    maxRetryDelayMs,    \* config.maxRetryDelayMs of the API instance
    endpoint,           \* endpoint of the current call
    mrPc,               \* makeRequest: "idle" | "awaiting" | "sleeping" | "returned" | "failed"
    totalElapsedTime,   \* makeRequest: let totalElapsedTime
    retries,            \* makeRequest: let retries
    retryAfterMs,       \* makeRequest: the delay being slept (let retryAfterMs)
    retryAfterHeader,   \* makeRequest: const retryAfterHeader of the latest 429
    request,            \* the axios request in flight / last issued: [url, data]
    mrResult,           \* value makeRequest returned (<<>> while none)
    mrError,            \* Error makeRequest threw (NoError while none)
    lastOutcome,        \* outcome of the latest transport attempt of the current makeRequest call
    pgPc,               \* makePaginatedRequest: "idle" | "running" | "returned" | "failed"
    results,            \* makePaginatedRequest: let results
    nextPage,           \* makePaginatedRequest: let nextPage
    filter,             \* makePaginatedRequest: the filter argument
    pgError,            \* Error makePaginatedRequest threw (NoError while none)
    pages,              \* history: data arrays of the pages fetched so far, in fetch order
    pageErr,            \* history: the Error makeRequest threw for a page (NoError while none)
    tql,                \* the TQLFilter object the client holds
    tqlOut,             \* outcome of the latest call on tql: [ok, err, str]
    tqlCall,            \* the latest method called on tql ("new" after construction)
    calls,              \* the locals of each of two concurrent makeRequest invocations
    cursors             \* the server's cursor table: page number -> next_page (<<>> while unused)

mrVars == <<endpoint, mrPc, totalElapsedTime, retries, retryAfterMs, retryAfterHeader, request,
            mrResult, mrError, lastOutcome>>
pgVars == <<pgPc, results, nextPage, filter, pgError, pages, pageErr>>
cfgVars == <<maxRetryTimeMs, maxRetryDelayMs>>
tqlVars == <<tql, tqlOut, tqlCall>>
\* what no step of a request changes
fixedVars == <<cfgVars, tqlVars, calls, cursors>>
vars == <<cfgVars, mrVars, pgVars, tqlVars, calls, cursors>>

(***************************************************************************)
(* Bounds of the model.                                                    *)
(***************************************************************************)
\* the server's listing has at most MaxPages pages
MaxPages == 2
\* retries is tracked exactly up to RetriesSat; from there on every
\* exponential delay is clamped to maxRetryDelayMs and no longer depends on it
RetriesSat == 2
\* negative Retry-After values may pull totalElapsedTime down to -1000 * NegSteps
NegSteps == 1

\* config.ts:48-49
DefaultMaxRetryDelayMs == 60000
DefaultMaxRetryTimeMs == 300000

\* index.ts:86-87: a configured 0 is replaced by the default, so the budget is never 0
MaxRetryTimeChoices == {3000, 4000}
MaxRetryDelayChoices == {2000, 3000}

Null == <<>>
Some(n) == <<n>>

Min(a, b) == IF a < b THEN a ELSE b
Max(a, b) == IF a > b THEN a ELSE b

(***************************************************************************)
(* Errors.  A message is <<format, number, endpoint>>; an error object     *)
(* carries what handleError reads: error.response (status and              *)
(* data.message), error.request and error.message.                         *)
(***************************************************************************)
Msg(text) == <<text, 0, "">>
NoMsg == Msg("")

PlainError(m) ==
    [hasResponse |-> FALSE, status |-> 0, dataMessage |-> "",
     hasRequest |-> FALSE, message |-> m]
NoError == PlainError(NoMsg)

\* an axios error that carries a response (non-2xx status)
ResponseError(status, dataMessage) ==
    [hasResponse |-> TRUE, status |-> status, dataMessage |-> dataMessage,
     hasRequest |-> TRUE, message |-> <<"Request failed with status code %d", status, "">>]
\* an axios error for a request that was sent and got no response
NoResponseError ==
    [hasResponse |-> FALSE, status |-> 0, dataMessage |-> "",
     hasRequest |-> TRUE, message |-> Msg("Network Error")]
\* an axios error raised before the request was sent
SetupError == PlainError(Msg("Invalid URL"))

\* makeRequest.ts:108-110; the number is rendered as maxRetryTimeMs/1000 seconds
BudgetExhaustedError(maxMs, ep) ==
    PlainError(<<"Max retry time of %d/1000 seconds exceeded for %s", maxMs, ep>>)

\* handleError.ts:22  data.message || `HTTP ${status}`
ApiErrorMessage(status, dataMessage) ==
    IF dataMessage # "" THEN Msg(dataMessage) ELSE <<"HTTP %d", status, "">>

HandleError_SwallowsPlain(error) ==
    IF error.hasResponse
    THEN IF error.status = 404
         THEN [threw |-> FALSE, error |-> NoError]
         ELSE [threw |-> TRUE,
               error |-> PlainError(ApiErrorMessage(error.status, error.dataMessage))]
    ELSE IF error.hasRequest
         THEN [threw |-> TRUE, error |-> PlainError(Msg("No response received from the API"))]
         ELSE [threw |-> FALSE, error |-> NoError]

HandleError_404Throws(error) ==
    IF error.hasResponse
    THEN [threw |-> TRUE,
          error |-> PlainError(ApiErrorMessage(error.status, error.dataMessage))]
    ELSE IF error.hasRequest
         THEN [threw |-> TRUE, error |-> PlainError(Msg("No response received from the API"))]
         ELSE [threw |-> TRUE, error |-> PlainError(Msg("Error setting up the request"))]

HandleError_SwallowsNoResponse(error) ==
    IF error.hasResponse
    THEN IF error.status = 404
         THEN [threw |-> FALSE, error |-> NoError]
         ELSE [threw |-> TRUE,
               error |-> PlainError(ApiErrorMessage(error.status, error.dataMessage))]
    ELSE IF error.hasRequest
         THEN [threw |-> FALSE, error |-> NoError]
         ELSE [threw |-> TRUE, error |-> PlainError(Msg("Error setting up the request"))]

\* handleError: returns [] (threw = FALSE) or throws a new Error
HandleError(error) ==
    IF error.hasResponse
    THEN IF error.status = 404
         THEN [threw |-> FALSE, error |-> NoError]
         ELSE [threw |-> TRUE,
               error |-> PlainError(ApiErrorMessage(error.status, error.dataMessage))]
    ELSE IF error.hasRequest
         THEN [threw |-> TRUE, error |-> PlainError(Msg("No response received from the API"))]
         ELSE [threw |-> TRUE, error |-> PlainError(Msg("Error setting up the request"))]

(***************************************************************************)
(* The Retry-After header and the delay computed from it.                  *)
(***************************************************************************)
IsSpace(c) == c \in {" ", "\t", "\n"}
IsDigit(c) == c \in {"0", "1", "2", "3", "4", "5", "6", "7", "8", "9"}
DigitVal(c) ==
    CASE c = "0" -> 0 [] c = "1" -> 1 [] c = "2" -> 2 [] c = "3" -> 3 [] c = "4" -> 4
      [] c = "5" -> 5 [] c = "6" -> 6 [] c = "7" -> 7 [] c = "8" -> 8 [] c = "9" -> 9

RECURSIVE SkipSpaces(_)
SkipSpaces(s) == IF s # <<>> /\ IsSpace(Head(s)) THEN SkipSpaces(Tail(s)) ELSE s

RECURSIVE ParseDigits(_, _)
ParseDigits(s, acc) ==
    IF s # <<>> /\ IsDigit(Head(s))
    THEN ParseDigits(Tail(s), acc * 10 + DigitVal(Head(s)))
    ELSE acc

\* parseInt(text, 10): leading white space, an optional sign, then the longest
\* run of digits; NaN when there is no digit
ParseInt(text) ==
    LET t == SkipSpaces(text)
        signed == t # <<>> /\ Head(t) \in {"+", "-"}
        body == IF signed THEN Tail(t) ELSE t
    IN  IF body = <<>> \/ ~IsDigit(Head(body))
        THEN [nan |-> TRUE, val |-> 0]
        ELSE [nan |-> FALSE,
              val |-> (IF signed /\ Head(t) = "-" THEN -1 ELSE 1) * ParseDigits(body, 0)]

\* A header: present or not, its text, and what new Date(text).getTime() - Date.now()
\* evaluates to when the text is a date (<<>> when new Date(text) is invalid).
Header(present, text, dateDiff) == [present |-> present, text |-> text, dateDiff |-> dateDiff]
NoHeader == Header(FALSE, <<>>, Null)
HttpDate == <<"W", "e", "d", ",">>

RetryAfterHeaders ==
    { NoHeader,
      Header(TRUE, <<>>, Null),
      Header(TRUE, <<"0">>, Null),
      Header(TRUE, <<"1">>, Null),
      Header(TRUE, <<"2">>, Null),
      Header(TRUE, <<"3">>, Null),
      Header(TRUE, <<"-", "1">>, Null),
      Header(TRUE, <<"b", "a", "n">>, Null),
      Header(TRUE, HttpDate, Some(-500)),
      Header(TRUE, HttpDate, Some(1500)) }

\* Math.random() as an integer number of hundredths, in [0, 1)
RandomDraws == {0, 50, 98}

ExponentialDelay_HalfToDouble(r, rand) == ((2 ^ r) * 1000 * (500 + rand * 15)) \div 1000

\* makeRequest.ts:64-66 and 74-79: Math.pow(2, retries) * 1000 * (0.75 + Math.random() * 0.5)
ExponentialDelay(r, rand) == ((2 ^ r) * 1000 * (750 + rand * 5)) \div 1000

ComputeRetryAfterMs_SecondsAsMs(header, r, rand) ==
    IF header.present /\ header.text # <<>>
    THEN LET retryAfterSeconds == ParseInt(header.text)
         IN  IF ~retryAfterSeconds.nan
             THEN retryAfterSeconds.val
             ELSE IF header.dateDiff = Null
                  THEN ExponentialDelay(r, rand)
                  ELSE Max(0, header.dateDiff[1])
    ELSE ExponentialDelay(r, rand)

ComputeRetryAfterMs_UnparseableIsZero(header, r, rand) ==
    IF header.present /\ header.text # <<>>
    THEN LET retryAfterSeconds == ParseInt(header.text)
         IN  IF ~retryAfterSeconds.nan
             THEN retryAfterSeconds.val * 1000
             ELSE IF header.dateDiff = Null
                  THEN 0
                  ELSE Max(0, header.dateDiff[1])
    ELSE ExponentialDelay(r, rand)

\* makeRequest.ts:52-80
ComputeRetryAfterMs(header, r, rand) ==
    IF header.present /\ header.text # <<>>
    THEN LET retryAfterSeconds == ParseInt(header.text)
         IN  IF ~retryAfterSeconds.nan
             THEN retryAfterSeconds.val * 1000
             ELSE IF header.dateDiff = Null
                  THEN ExponentialDelay(r, rand)
                  ELSE Max(0, header.dateDiff[1])
    ELSE ExponentialDelay(r, rand)

CapDelay_NoCap(delay, cap) == delay

CapDelay_HalfCap(delay, cap) == Min(cap \div 2, delay)

\* makeRequest.ts:83
CapDelay(delay, cap) == Min(cap, delay)

BudgetExceeded_NoCheck(elapsed, delay, maxMs) == FALSE

BudgetExceeded_Strict(elapsed, delay, maxMs) == elapsed + delay > maxMs

\* makeRequest.ts:85
BudgetExceeded(elapsed, delay, maxMs) == elapsed + delay >= maxMs

LoopCondition_NoCheck(elapsed, maxMs) == TRUE

\* makeRequest.ts:32  while (totalElapsedTime < maxRetryTimeMs)
LoopCondition(elapsed, maxMs) == elapsed < maxMs

\* makeRequest.ts:97  retries++  (exact up to RetriesSat)
NextRetries(r) == IF r < RetriesSat THEN r + 1 ELSE r

(***************************************************************************)
(* The TQL filter builder (tqlFilter.ts).  A string is a sequence of        *)
(* one-character strings.  A value is [kind, str, num, items]: a string, a  *)
(* number, or an array whose items are string and number values; "other"   *)
(* stands for an argument that is no array where one is required.          *)
(***************************************************************************)
StrVal(s) == [kind |-> "string", str |-> s, num |-> 0, items |-> <<>>]
NumVal(n) == [kind |-> "number", str |-> <<>>, num |-> n, items |-> <<>>]
ArrVal(items) == [kind |-> "array", str |-> <<>>, num |-> 0, items |-> items]

DigitChar(d) ==
    CASE d = 0 -> "0" [] d = 1 -> "1" [] d = 2 -> "2" [] d = 3 -> "3" [] d = 4 -> "4"
      [] d = 5 -> "5" [] d = 6 -> "6" [] d = 7 -> "7" [] d = 8 -> "8" [] d = 9 -> "9"

RECURSIVE NatToString(_)
NatToString(n) ==
    IF n < 10 THEN <<DigitChar(n)>> ELSE NatToString(n \div 10) \o <<DigitChar(n % 10)>>

\* String(value) of an integer
NumberToString(n) == IF n < 0 THEN <<"-">> \o NatToString(-n) ELSE NatToString(n)

\* str.includes(c)
Includes(str, c) == \E i \in 1..Len(str) : str[i] = c

RECURSIVE Join(_, _)
\* parts.join(sep)
Join(parts, sep) ==
    IF parts = <<>> THEN <<>>
    ELSE IF Len(parts) = 1 THEN parts[1]
    ELSE parts[1] \o sep \o Join(Tail(parts), sep)

\* tqlFilter.ts:86-89  constructor(attribute, entityPrefix?)
NewTQLFilter(attribute, entityPrefix) ==
    [predicates |-> <<>>,
     logicalOperators |-> <<>>,
     entityPrefix |-> entityPrefix,
     currentAttribute |-> attribute,
     currentOperator |-> Null,
     currentValue |-> Null]

\* tqlFilter.ts:415-418  TypedTQLFilterBuilder.filter(attribute)
TypedFilter(prefix, attribute) == NewTQLFilter(prefix \o <<".">> \o attribute, prefix)

\* tqlFilter.ts:94-105
FinalizePredicate(b) ==
    [b EXCEPT
       !.predicates =
           IF b.currentAttribute # <<>> /\ b.currentOperator # Null /\ b.currentValue # Null
           THEN Append(@, [attribute |-> b.currentAttribute,
                           operator |-> b.currentOperator[1],
                           value |-> b.currentValue[1]])
           ELSE @,
       !.currentAttribute = <<>>,
       !.currentOperator = Null,
       !.currentValue = Null]

\* the outcome of a builder call: the builder afterwards, and the error thrown if any
Done(b) == [ok |-> TRUE, tql |-> b, err |-> ""]
Throw_DropsPending(b, message) ==
    [ok |-> FALSE, tql |-> [b EXCEPT !.currentAttribute = <<>>], err |-> message]
Throw(b, message) == [ok |-> FALSE, tql |-> b, err |-> message]

SetComparison_NoGuard(b, operator, value) ==
    Done(FinalizePredicate([b EXCEPT !.currentOperator = Some(operator),
                                     !.currentValue = Some(value)]))

\* tqlFilter.ts:110-118
SetComparison(b, operator, value) ==
    IF b.currentAttribute = <<>>
    THEN Throw(b, "Must call filter() or and() or or() before using comparison operators")
    ELSE Done(FinalizePredicate([b EXCEPT !.currentOperator = Some(operator),
                                          !.currentValue = Some(value)]))

\* tqlFilter.ts:125-151, 180-206
Eq(b, value) == SetComparison(b, "EQ", value)
NotEq(b, value) == SetComparison(b, "NOT_EQ", value)
Like(b, value) == SetComparison(b, "LIKE", value)
NotLike(b, value) == SetComparison(b, "NOT_LIKE", value)
Gt(b, value) == SetComparison(b, "GT", value)
Gte(b, value) == SetComparison(b, "GTE", value)
Lt(b, value) == SetComparison(b, "LT", value)
Lte(b, value) == SetComparison(b, "LTE", value)

In_NoArrayCheck(b, values) == SetComparison(b, "IN", values)

\* tqlFilter.ts:157-162
In(b, values) ==
    IF values.kind # "array" \/ Len(values.items) = 0
    THEN Throw(b, "IN operator requires a non-empty array")
    ELSE SetComparison(b, "IN", values)

\* tqlFilter.ts:168-173
NotIn(b, values) ==
    IF values.kind # "array" \/ Len(values.items) = 0
    THEN Throw(b, "NOT_IN operator requires a non-empty array")
    ELSE SetComparison(b, "NOT_IN", values)

\* tqlFilter.ts:220-224 and 240-244
PrefixedAttribute(b, attribute) ==
    IF b.entityPrefix # <<>> /\ ~Includes(attribute, ".")
    THEN b.entityPrefix \o <<".">> \o attribute
    ELSE attribute

And_NoGuard(b, attribute) ==
    Done([b EXCEPT !.logicalOperators = Append(@, "AND"),
                   !.currentAttribute = PrefixedAttribute(b, attribute)])

\* tqlFilter.ts:214-226
And(b, attribute) ==
    IF Len(b.predicates) = 0
    THEN Throw(b, "Must have at least one predicate before using AND")
    ELSE Done([b EXCEPT !.logicalOperators = Append(@, "AND"),
                        !.currentAttribute = PrefixedAttribute(b, attribute)])

\* tqlFilter.ts:234-246
Or(b, attribute) ==
    IF Len(b.predicates) = 0
    THEN Throw(b, "Must have at least one predicate before using OR")
    ELSE Done([b EXCEPT !.logicalOperators = Append(@, "OR"),
                        !.currentAttribute = PrefixedAttribute(b, attribute)])

\* /\s/ on one character
IsWhitespace(c) == c \in {" ", "\t", "\n", "\r"}

NeedsQuotes_NoTilde(str) ==
    \/ str = <<>>
    \/ \E i \in 1..Len(str) : IsWhitespace(str[i]) \/ str[i] \in {",", "\"", "\\"}

\* /[\s,~"\\]/.test(value) || value === ''
NeedsQuotes(str) ==
    \/ str = <<>>
    \/ \E i \in 1..Len(str) : IsWhitespace(str[i]) \/ str[i] \in {",", "~", "\"", "\\"}

EscapeQuoted_NoEscape(str) == str

RECURSIVE EscapeQuoted(_)
\* value.replace(/[\\"]/g, '\\$&')
EscapeQuoted(str) ==
    IF str = <<>> THEN <<>>
    ELSE (IF Head(str) \in {"\\", "\""} THEN <<"\\", Head(str)>> ELSE <<Head(str)>>)
         \o EscapeQuoted(Tail(str))

\* tqlFilter.ts:263-276
FormatSingleValue(value) ==
    IF value.kind = "number"
    THEN NumberToString(value.num)
    ELSE IF NeedsQuotes(value.str)
         THEN <<"\"">> \o EscapeQuoted(value.str) \o <<"\"">>
         ELSE value.str

FormatValue_SpacedCommas(value) ==
    IF value.kind = "array"
    THEN Join([i \in 1..Len(value.items) |-> FormatSingleValue(value.items[i])], <<",", " ">>)
    ELSE FormatSingleValue(value)

\* tqlFilter.ts:252-258
FormatValue(value) ==
    IF value.kind = "array"
    THEN Join([i \in 1..Len(value.items) |-> FormatSingleValue(value.items[i])], <<",">>)
    ELSE FormatSingleValue(value)

ReplaceStep_IgnoresQuotes(str, st) ==
    IF ~(st.i < Len(str)) THEN st
    ELSE [i |-> st.i + 1, insideQuotes |-> st.insideQuotes,
          result |-> Append(st.result,
                            IF IsWhitespace(str[st.i + 1]) THEN "~" ELSE str[st.i + 1])]

ReplaceStep_NoEscape(str, st) ==
    IF ~(st.i < Len(str)) THEN st
    ELSE LET char == str[st.i + 1]
         IN  IF char = "\""
             THEN [i |-> st.i + 1, insideQuotes |-> ~st.insideQuotes,
                   result |-> Append(st.result, char)]
             ELSE IF IsWhitespace(char)
             THEN [i |-> st.i + 1, insideQuotes |-> st.insideQuotes,
                   result |-> Append(st.result, IF st.insideQuotes THEN char ELSE "~")]
             ELSE [i |-> st.i + 1, insideQuotes |-> st.insideQuotes,
                   result |-> Append(st.result, char)]

\* One iteration of the while loop of tqlFilter.ts:290-312.  The loop state is
\* [i, insideQuotes, result], with i counting from 0 as in the code; once
\* i < str.length is false the loop has ended and the state stays as it is.
ReplaceStep(str, st) ==
    IF ~(st.i < Len(str)) THEN st
    ELSE LET char == str[st.i + 1]
         IN  IF char = "\\" /\ st.insideQuotes /\ st.i + 1 < Len(str)
             THEN [i |-> st.i + 2, insideQuotes |-> st.insideQuotes,
                   result |-> st.result \o <<char, str[st.i + 2]>>]
             ELSE IF char = "\""
             THEN [i |-> st.i + 1, insideQuotes |-> ~st.insideQuotes,
                   result |-> Append(st.result, char)]
             ELSE IF IsWhitespace(char)
             THEN [i |-> st.i + 1, insideQuotes |-> st.insideQuotes,
                   result |-> Append(st.result, IF st.insideQuotes THEN char ELSE "~")]
             ELSE [i |-> st.i + 1, insideQuotes |-> st.insideQuotes,
                   result |-> Append(st.result, char)]

RECURSIVE ReplaceLoop(_, _, _)
\* The loop run for up to n iterations from state st (the iterations are split
\* in two halves so that the evaluation does not nest once per character).
ReplaceLoop(str, st, n) ==
    IF n = 0 THEN st
    ELSE IF n = 1 THEN ReplaceStep(str, st)
    ELSE LET half == ReplaceLoop(str, st, n \div 2)
         IN  IF ~(half.i < Len(str)) THEN half
             ELSE ReplaceLoop(str, half, n - (n \div 2))

\* tqlFilter.ts:285-315; every iteration advances i, so Len(str) iterations end the loop
ReplaceSpacesOutsideQuotes(str) ==
    ReplaceLoop(str, [i |-> 0, insideQuotes |-> FALSE, result |-> <<>>], Len(str)).result

\* tqlFilter.ts:339  `${attribute} ${operator} ${formatValue(value)}`
OperatorText(op) ==
    CASE op = "EQ" -> <<"E", "Q">>
      [] op = "NOT_EQ" -> <<"N", "O", "T", "_", "E", "Q">>
      [] op = "LIKE" -> <<"L", "I", "K", "E">>
      [] op = "NOT_LIKE" -> <<"N", "O", "T", "_", "L", "I", "K", "E">>
      [] op = "IN" -> <<"I", "N">>
      [] op = "NOT_IN" -> <<"N", "O", "T", "_", "I", "N">>
      [] op = "GT" -> <<"G", "T">>
      [] op = "GTE" -> <<"G", "T", "E">>
      [] op = "LT" -> <<"L", "T">>
      [] op = "LTE" -> <<"L", "T", "E">>
      [] op = "AND" -> <<"A", "N", "D">>
      [] op = "OR" -> <<"O", "R">>

PredicateText(p) ==
    p.attribute \o <<" ">> \o OperatorText(p.operator) \o <<" ">> \o FormatValue(p.value)

RECURSIVE PartsFrom_TrailingConnector(_, _)
PartsFrom_TrailingConnector(b, i) ==
    IF i > Len(b.predicates) THEN <<>>
    ELSE <<PredicateText(b.predicates[i])>>
         \o (IF i <= Len(b.logicalOperators)
             THEN <<OperatorText(b.logicalOperators[i])>> ELSE <<>>)
         \o PartsFrom_TrailingConnector(b, i + 1)

RECURSIVE PartsFrom(_, _)
\* the for loop of tqlFilter.ts:337-347 from index i (1-based)
PartsFrom(b, i) ==
    IF i > Len(b.predicates) THEN <<>>
    ELSE <<PredicateText(b.predicates[i])>>
         \o (IF i < Len(b.predicates) /\ i <= Len(b.logicalOperators)
             THEN <<OperatorText(b.logicalOperators[i])>> ELSE <<>>)
         \o PartsFrom(b, i + 1)

ToString_NoEmptyCheck(b, urlEncode) ==
    [ok |-> TRUE, tql |-> b, err |-> "",
     str |-> IF urlEncode THEN ReplaceSpacesOutsideQuotes(Join(PartsFrom(b, 1), <<" ">>))
             ELSE Join(PartsFrom(b, 1), <<" ">>)]

ToString_AlwaysFinalizes(b, urlEncode) ==
    LET b1 == FinalizePredicate(b)
        joined == Join(PartsFrom(b1, 1), <<" ">>)
    IN  IF Len(b1.predicates) = 0
        THEN [ok |-> FALSE, tql |-> b1, err |-> "Filter must have at least one predicate",
              str |-> <<>>]
        ELSE [ok |-> TRUE, tql |-> b1, err |-> "",
              str |-> IF urlEncode THEN ReplaceSpacesOutsideQuotes(joined) ELSE joined]

\* tqlFilter.ts:323-358: [ok, tql, err, str]
ToString(b, urlEncode) ==
    LET b1 == IF b.currentAttribute # <<>> /\ b.currentOperator # Null /\ b.currentValue # Null
              THEN FinalizePredicate(b) ELSE b
        joined == Join(PartsFrom(b1, 1), <<" ">>)
    IN  IF Len(b1.predicates) = 0
        THEN [ok |-> FALSE, tql |-> b1, err |-> "Filter must have at least one predicate",
              str |-> <<>>]
        ELSE [ok |-> TRUE, tql |-> b1, err |-> "",
              str |-> IF urlEncode THEN ReplaceSpacesOutsideQuotes(joined) ELSE joined]

\* tqlFilter.ts:364-366
ToHumanReadableString(b) == ToString(b, FALSE)

\* tqlFilter.ts:372-374
ValueOf(b) == ToString(b, TRUE)

\* tqlFilter.ts:380-382
ToPrimitive(b, hint) == ToString(b, TRUE)

(***************************************************************************)
(* Inputs of the builder.                                                  *)
(***************************************************************************)
\* and / or may be called while fewer than MaxConnectors connectors are stored
MaxConnectors == 1

StatusAttr == <<"s", "t", "a", "t", "u", "s">>
NameAttr == <<"n", "a", "m", "e">>
AgentPrefix == <<"a", "g", "e", "n", "t">>
Scheduled == <<"s", "c", "h", "e", "d", "u", "l", "e", "d">>
JohnDoe == <<"J", "o", "h", "n", " ", "D", "o", "e">>

\* the attributes given to and / or
FilterAttributes == {NameAttr}
ScalarValues == {StrVal(Scheduled)}
StringValues == {StrVal(JohnDoe)}
NumberValues == {NumVal(5)}
\* arguments of in / notIn: an empty array, a non-empty array, and a string
\* (no array) passed where an array is required
ArrayValues ==
    {ArrVal(<<>>), ArrVal(<<StrVal(<<"a">>), StrVal(<<"b">>), StrVal(<<"c">>)>>), StrVal(<<"a">>)}

NoOutcome == [ok |-> TRUE, err |-> "", str |-> <<>>]

\* filter("status").eq("scheduled").and("name").like("John Doe")
ExampleFilter ==
    Like(And(Eq(NewTQLFilter(StatusAttr, <<>>), StrVal(Scheduled)).tql, NameAttr).tql,
         StrVal(JohnDoe)).tql

\* the filters a client of the facade holds
ClientFilters == {ExampleFilter}

(***************************************************************************)
(* Server responses.                                                       *)
(***************************************************************************)
PageDataChoices == { <<>>, <<1, 2>>, <<3>> }
NextPageChoices == { Null, Some(0), Some(1), Some(2) }
Bodies == [data : PageDataChoices, next_page : NextPageChoices]
ErrorStatuses == {404, 500}
DataMessages == {"", "boom"}

\* filter arguments of the facade (index.ts:167): null, a TQL string, or a TQLFilter
NoBuilder == NewTQLFilter(<<>>, <<>>)
NullFilter == [kind |-> "null", str |-> <<>>, obj |-> NoBuilder]
StringFilter(s) == [kind |-> "string", str |-> s, obj |-> NoBuilder]
BuilderFilter(b) == [kind |-> "builder", str |-> <<>>, obj |-> b]
FilterArgs(b) == { NullFilter, StringFilter(<<"a", " ", "E", "Q", " ", "1">>), BuilderFilter(b) }

PaginatedEndpoints == {"/agents"}
NoRequest == [url |-> "", data |-> <<>>]

(***************************************************************************)
(* makePaginatedRequest                                                    *)
(***************************************************************************)
ConcatPage_Prepend(acc, data) == data \o acc

\* makePaginatedRequest.ts:38  results = results.concat(response.data)
ConcatPage(acc, data) == acc \o data

Truthy_NotNull(np) == np # Null

Truthy_Never(np) == FALSE

\* makePaginatedRequest.ts:40  while (nextPage)
Truthy(np) == np # Null /\ np[1] # 0

PageRequest_AlwaysFirst(ep, f, np) == [url |-> ep, data |-> <<[filter |-> f, page |-> Some(1)]>>]

\* makePaginatedRequest.ts:32  { ...data, filter, page: nextPage }  (data is null in the facade)
PageRequest(ep, f, np) == [url |-> ep, data |-> <<[filter |-> f, page |-> np]>>]

\* makePaginatedRequest.ts:44-51: the catch block and the return after it.
\* `acc` is the value of results at the time of the failure.
PgCatch(error, acc) ==
    LET h == HandleError(error)
    IN  /\ pageErr' = error
        /\ results' = acc
        /\ IF h.threw
           THEN pgPc' = "failed" /\ pgError' = h.error
           ELSE pgPc' = "returned" /\ pgError' = NoError

PgCallMakeRequest_KeepsBudget(ep, f, np, acc) ==
    /\ UNCHANGED <<totalElapsedTime, retries>>
    /\ retryAfterMs' = 0
    /\ retryAfterHeader' = NoHeader
    /\ lastOutcome' = "none"
    /\ mrResult' = <<>>
    /\ IF LoopCondition(totalElapsedTime, maxRetryTimeMs)
       THEN /\ mrPc' = "awaiting"
            /\ request' = PageRequest(ep, f, np)
            /\ mrError' = NoError
            /\ pgPc' = "running"
            /\ results' = acc
            /\ UNCHANGED <<pgError, pageErr>>
       ELSE /\ mrPc' = "failed"
            /\ request' = request
            /\ mrError' = BudgetExhaustedError(maxRetryTimeMs, ep)
            /\ PgCatch(BudgetExhaustedError(maxRetryTimeMs, ep), acc)

\* makeRequest.ts:29-32 and 108-110 as called from makePaginatedRequest.ts:23-35:
\* a fresh makeRequest invocation for page np; it issues its first attempt, or
\* throws at once when the loop condition is false.
PgCallMakeRequest(ep, f, np, acc) ==
    /\ totalElapsedTime' = 0
    /\ retries' = 0
    /\ retryAfterMs' = 0
    /\ retryAfterHeader' = NoHeader
    /\ lastOutcome' = "none"
    /\ mrResult' = <<>>
    /\ IF LoopCondition(0, maxRetryTimeMs)
       THEN /\ mrPc' = "awaiting"
            /\ request' = PageRequest(ep, f, np)
            /\ mrError' = NoError
            /\ pgPc' = "running"
            /\ results' = acc
            /\ UNCHANGED <<pgError, pageErr>>
       ELSE /\ mrPc' = "failed"
            /\ request' = request
            /\ mrError' = BudgetExhaustedError(maxRetryTimeMs, ep)
            /\ PgCatch(BudgetExhaustedError(maxRetryTimeMs, ep), acc)

\* The facade's paginated calls (getAgents, getTeams, ...): index.ts:167-176
GetAgents(ep, f) ==
    /\ pgPc = "idle" /\ mrPc = "idle"
    /\ endpoint' = ep
    /\ filter' = f
    /\ nextPage' = Some(1)
    /\ pages' = <<>>
    /\ PgCallMakeRequest(ep, f, Some(1), <<>>)
    /\ UNCHANGED fixedVars

\* The facade's single-entity call: index.ts:217-229
GetSchedulingRequest ==
    /\ pgPc = "idle" /\ mrPc = "idle"
    /\ endpoint' = "/scheduling_requests/id"
    /\ totalElapsedTime' = 0
    /\ retries' = 0
    /\ retryAfterMs' = 0
    /\ retryAfterHeader' = NoHeader
    /\ lastOutcome' = "none"
    /\ mrResult' = <<>>
    /\ IF LoopCondition(0, maxRetryTimeMs)
       THEN /\ mrPc' = "awaiting"
            /\ request' = [url |-> "/scheduling_requests/id", data |-> <<>>]
            /\ mrError' = NoError
       ELSE /\ mrPc' = "failed"
            /\ request' = request
            /\ mrError' = BudgetExhaustedError(maxRetryTimeMs, "/scheduling_requests/id")
    /\ UNCHANGED <<fixedVars, pgVars>>

\* makeRequest throws `error`: the direct caller sees it; makePaginatedRequest catches it
MrThrow(error) ==
    /\ mrPc' = "failed"
    /\ mrError' = error
    /\ UNCHANGED <<endpoint, totalElapsedTime, retries, retryAfterMs, retryAfterHeader,
                   request, mrResult>>
    /\ IF pgPc = "running"
       THEN PgCatch(error, results) /\ UNCHANGED <<nextPage, filter, pages>>
       ELSE UNCHANGED pgVars

\* makeRequest goes round its loop again: the next attempt, or the throw after the loop
MrLoop(elapsed) ==
    IF LoopCondition(elapsed, maxRetryTimeMs)
    THEN /\ mrPc' = "awaiting"
         /\ UNCHANGED <<mrError, pgVars>>
    ELSE /\ mrPc' = "failed"
         /\ mrError' = BudgetExhaustedError(maxRetryTimeMs, endpoint)
         /\ IF pgPc = "running"
            THEN PgCatch(BudgetExhaustedError(maxRetryTimeMs, endpoint), results)
                 /\ UNCHANGED <<nextPage, filter, pages>>
            ELSE UNCHANGED pgVars

RespondSuccess_RetriedOnceMore(body) ==
    /\ mrPc = "awaiting"
    /\ pgPc = "idle"
    /\ mrPc' = IF retries > 0 /\ lastOutcome = "429" THEN "awaiting" ELSE "returned"
    /\ mrResult' = <<body>>
    /\ lastOutcome' = "ok"
    /\ UNCHANGED <<fixedVars, endpoint, totalElapsedTime, retries, retryAfterMs,
                   retryAfterHeader, request, mrError, pgVars>>

\* axios resolves with a 2xx response: makeRequest.ts:48, then
\* makePaginatedRequest.ts:37-43 when the call is a page request
ResolveWith(body) ==
    /\ UNCHANGED <<fixedVars, endpoint, filter>>
    /\ IF pgPc = "running"
       THEN /\ nextPage' = body.next_page
            /\ pages' = Append(pages, body.data)
            /\ IF Truthy(body.next_page)
               THEN PgCallMakeRequest(endpoint, filter, body.next_page,
                                      ConcatPage(results, body.data))
               ELSE /\ results' = ConcatPage(results, body.data)
                    /\ pgPc' = "returned"
                    /\ mrPc' = "returned"
                    /\ mrResult' = <<body>>
                    /\ lastOutcome' = "ok"
                    /\ UNCHANGED <<totalElapsedTime, retries, retryAfterMs, retryAfterHeader,
                                   request, mrError, pgError, pageErr>>
       ELSE /\ mrPc' = "returned"
            /\ mrResult' = <<body>>
            /\ lastOutcome' = "ok"
            /\ UNCHANGED <<totalElapsedTime, retries, retryAfterMs, retryAfterHeader,
                           request, mrError, pgVars>>

RespondSuccess(body) ==
    /\ mrPc = "awaiting"
    /\ pgPc = "running" /\ Truthy(body.next_page) => Len(pages) + 1 < MaxPages
    /\ ResolveWith(body)

\* axios rejects with a 429 response: makeRequest.ts:50-97 up to the sleep
Respond429(header, rand) ==
    LET delay == CapDelay(ComputeRetryAfterMs(header, retries, rand), maxRetryDelayMs)
    IN  /\ mrPc = "awaiting"
        /\ totalElapsedTime + delay >= -(1000 * NegSteps)
        /\ lastOutcome' = "429"
        /\ retryAfterMs' = delay
        /\ retryAfterHeader' = header
        /\ UNCHANGED <<fixedVars, endpoint, totalElapsedTime, retries, request, mrResult>>
        /\ IF BudgetExceeded(totalElapsedTime, delay, maxRetryTimeMs)
           THEN \* break, then the throw after the loop
                /\ mrPc' = "failed"
                /\ mrError' = BudgetExhaustedError(maxRetryTimeMs, endpoint)
                /\ IF pgPc = "running"
                   THEN PgCatch(BudgetExhaustedError(maxRetryTimeMs, endpoint), results)
                        /\ UNCHANGED <<nextPage, filter, pages>>
                   ELSE UNCHANGED pgVars
           ELSE /\ mrPc' = "sleeping"
                /\ UNCHANGED <<mrError, pgVars>>

\* the setTimeout of makeRequest.ts:95 fires: lines 96-97, then the loop condition
SleepDone ==
    /\ mrPc = "sleeping"
    /\ totalElapsedTime' = totalElapsedTime + retryAfterMs
    /\ retries' = NextRetries(retries)
    /\ MrLoop(totalElapsedTime + retryAfterMs)
    /\ UNCHANGED <<fixedVars, endpoint, retryAfterMs, retryAfterHeader, request, mrResult,
                   lastOutcome>>

\* axios rejects with `error`, which is no 429: makeRequest.ts:98-104.  When
\* handleError returns, control falls out of the catch block and the loop goes on.
MrOtherError(error, outcome) ==
    /\ mrPc = "awaiting"
    /\ lastOutcome' = outcome
    /\ UNCHANGED fixedVars
    /\ IF HandleError(error).threw
       THEN MrThrow(HandleError(error).error)
       ELSE /\ MrLoop(totalElapsedTime)
            /\ UNCHANGED <<endpoint, totalElapsedTime, retries, retryAfterMs,
                           retryAfterHeader, request, mrResult>>

RespondHttpError(status, dataMessage) ==
    MrOtherError(ResponseError(status, dataMessage),
                 IF status = 404 THEN "404" ELSE "httpError")

RespondNothing == MrOtherError(NoResponseError, "noResponse")

RequestSetupFails == MrOtherError(SetupError, "setupError")

\* Two makeRequest invocations in flight at once (makeRequest.ts:19-111): each
\* owns its arguments and the locals of lines 29-30 and 53; `slept` is the
\* history of the delays the invocation itself has slept.
Invocations == {"A", "B"}

IdleCall == [pc |-> "idle", endpoint |-> "", totalElapsedTime |-> 0, retries |-> 0,
             retryAfterMs |-> 0, error |-> NoError, slept |-> <<>>]

NoCalls == [i \in Invocations |-> IdleCall]

\* the state before any call, for a client whose retry budget is one of `budgets`
InitRequests(budgets) ==
    /\ maxRetryTimeMs \in budgets
    /\ maxRetryDelayMs \in MaxRetryDelayChoices
    /\ endpoint = ""
    /\ mrPc = "idle"
    /\ totalElapsedTime = 0
    /\ retries = 0
    /\ retryAfterMs = 0
    /\ retryAfterHeader = NoHeader
    /\ request = NoRequest
    /\ mrResult = <<>>
    /\ mrError = NoError
    /\ lastOutcome = "none"
    /\ pgPc = "idle"
    /\ results = <<>>
    /\ nextPage = Null
    /\ filter = NullFilter
    /\ pgError = NoError
    /\ pages = <<>>
    /\ pageErr = NoError
    /\ tql \in ClientFilters
    /\ tqlOut = NoOutcome
    /\ tqlCall = "new"
    /\ calls = NoCalls

Init == InitRequests(MaxRetryTimeChoices) /\ cursors = <<>>

Next ==
    \/ \E ep \in PaginatedEndpoints, f \in FilterArgs(tql) : GetAgents(ep, f)
    \/ GetSchedulingRequest
    \/ \E body \in Bodies : RespondSuccess(body)
    \/ \E header \in RetryAfterHeaders, rand \in RandomDraws : Respond429(header, rand)
    \/ \E status \in ErrorStatuses, dm \in DataMessages : RespondHttpError(status, dm)
    \/ RespondNothing
    \/ RequestSetupFails
    \/ SleepDone

Spec == Init /\ [][Next]_vars

(***************************************************************************)
(* The builder as a state machine: one action per public method.           *)
(***************************************************************************)
BuilderCall(method, r) ==
    /\ tql' = r.tql
    /\ tqlOut' = [ok |-> r.ok, err |-> r.err, str |-> <<>>]
    /\ tqlCall' = method
    /\ UNCHANGED <<cfgVars, mrVars, pgVars, calls, cursors>>

RenderCall(method, r) ==
    /\ tql' = r.tql
    /\ tqlOut' = [ok |-> r.ok, err |-> r.err, str |-> r.str]
    /\ tqlCall' = method
    /\ UNCHANGED <<cfgVars, mrVars, pgVars, calls, cursors>>

CallEq(v) == BuilderCall("eq", Eq(tql, v))
CallNotEq(v) == BuilderCall("notEq", NotEq(tql, v))
CallLike(v) == BuilderCall("like", Like(tql, v))
CallNotLike(v) == BuilderCall("notLike", NotLike(tql, v))
CallIn(v) == BuilderCall("in", In(tql, v))
CallNotIn(v) == BuilderCall("notIn", NotIn(tql, v))
CallGt(v) == BuilderCall("gt", Gt(tql, v))
CallGte(v) == BuilderCall("gte", Gte(tql, v))
CallLt(v) == BuilderCall("lt", Lt(tql, v))
CallLte(v) == BuilderCall("lte", Lte(tql, v))
CallAnd(a) == Len(tql.logicalOperators) < MaxConnectors /\ BuilderCall("and", And(tql, a))
CallOr(a) == Len(tql.logicalOperators) < MaxConnectors /\ BuilderCall("or", Or(tql, a))
CallToString(urlEncode) ==
    RenderCall(IF urlEncode THEN "toString(true)" ELSE "toString(false)",
               ToString(tql, urlEncode))
CallToHumanReadableString == RenderCall("toHumanReadableString", ToHumanReadableString(tql))
CallValueOf == RenderCall("valueOf", ValueOf(tql))
CallToPrimitive(hint) == RenderCall("toPrimitive", ToPrimitive(tql, hint))

\* TQL.filter(attribute), or TQL.forAgents().filter(attribute)
\* the state after TQL.filter(...) returned one of `filters`; no request is in flight
InitBuilder(filters) ==
    /\ maxRetryTimeMs = DefaultMaxRetryTimeMs
    /\ maxRetryDelayMs = DefaultMaxRetryDelayMs
    /\ endpoint = ""
    /\ mrPc = "idle"
    /\ totalElapsedTime = 0
    /\ retries = 0
    /\ retryAfterMs = 0
    /\ retryAfterHeader = NoHeader
    /\ request = NoRequest
    /\ mrResult = <<>>
    /\ mrError = NoError
    /\ lastOutcome = "none"
    /\ pgPc = "idle"
    /\ results = <<>>
    /\ nextPage = Null
    /\ filter = NullFilter
    /\ pgError = NoError
    /\ pages = <<>>
    /\ pageErr = NoError
    /\ tql \in filters
    /\ tqlOut = NoOutcome
    /\ tqlCall = "new"
    /\ calls = NoCalls
    /\ cursors = <<>>

InitFilter ==
    InitBuilder({NewTQLFilter(StatusAttr, <<>>), TypedFilter(AgentPrefix, NameAttr)})

NextFilter ==
    \/ \E v \in ScalarValues : CallEq(v)
    \/ \E v \in ScalarValues : CallNotEq(v)
    \/ \E v \in StringValues : CallLike(v)
    \/ \E v \in StringValues : CallNotLike(v)
    \/ \E v \in ArrayValues : CallIn(v)
    \/ \E v \in ArrayValues : CallNotIn(v)
    \/ \E v \in NumberValues : CallGt(v)
    \/ \E v \in NumberValues : CallGte(v)
    \/ \E v \in NumberValues : CallLt(v)
    \/ \E v \in NumberValues : CallLte(v)
    \/ \E a \in FilterAttributes : CallAnd(a)
    \/ \E a \in FilterAttributes : CallOr(a)
    \/ \E urlEncode \in BOOLEAN : CallToString(urlEncode)
    \/ CallToHumanReadableString
    \/ CallValueOf
    \/ \E hint \in {"string", "number", "default"} : CallToPrimitive(hint)

SpecFilter == InitFilter /\ [][NextFilter]_vars

(***************************************************************************)
(* A client that chains connectors: only eq, and, or and the renderings    *)
(* are called, with up to MaxChain connectors stored.                      *)
(***************************************************************************)
MaxChain == 2

ChainAnd(a) == Len(tql.logicalOperators) < MaxChain /\ BuilderCall("and", And(tql, a))
ChainOr(a) == Len(tql.logicalOperators) < MaxChain /\ BuilderCall("or", Or(tql, a))

NextConnectors ==
    \/ \E v \in ScalarValues \cup NumberValues : CallEq(v)
    \/ \E a \in FilterAttributes \cup {StatusAttr} : ChainAnd(a)
    \/ \E a \in FilterAttributes \cup {StatusAttr} : ChainOr(a)
    \/ \E urlEncode \in BOOLEAN : CallToString(urlEncode)

SpecConnectors == InitFilter /\ [][NextConnectors]_vars

(***************************************************************************)
(* A client that renders one predicate: the value given to eq ranges over  *)
(* all strings of up to MaxValueLen characters of ValueChars, the array    *)
(* given to in over all arrays of up to MaxItems items of ItemChoices.     *)
(***************************************************************************)
MaxValueLen == 2
MaxItems == 2

ValueChars == {"a", " ", "\t", ",", "~", "\"", "\\"}
StringsUpTo(n) == UNION {[1..k -> ValueChars] : k \in 0..n}
FormatStrings == {StrVal(str) : str \in StringsUpTo(MaxValueLen)}

ItemChoices == {StrVal(<<"a">>), StrVal(<<"b", ",">>), NumVal(-7)}
FormatArrays ==
    {ArrVal(items) : items \in UNION {[1..k -> ItemChoices] : k \in 1..MaxItems}}
    \cup {ArrVal(<<StrVal(<<"a">>), StrVal(<<"b">>), StrVal(<<"c">>)>>)}

InitFormat == InitFilter /\ tql = NewTQLFilter(StatusAttr, <<>>)

NextFormat ==
    \/ \E v \in FormatStrings : CallEq(v)
    \/ \E v \in FormatArrays : CallIn(v)
    \/ \E urlEncode \in BOOLEAN : CallToString(urlEncode)
    \/ CallToHumanReadableString

SpecFormat == InitFormat /\ [][NextFormat]_vars

(***************************************************************************)
(* The scan of the URL-encoded rendering: one predicate whose attribute     *)
(* ranges over all short strings of letters, blanks, quotes and             *)
(* backslashes (the attribute is rendered as it is, so it brings quotes and *)
(* backslashes into the rendering outside any quoted value).                *)
(***************************************************************************)
MaxScanLen == 3
ScanChars == {"a", " ", "\"", "\\"}
ScanAttributes == UNION {[1..k -> ScanChars] : k \in 1..MaxScanLen}
ScanValues == {NumVal(5), StrVal(<<"\"", " ">>), StrVal(<<" ", "\\">>)}

InitScan == InitBuilder({NewTQLFilter(attribute, <<>>) : attribute \in ScanAttributes})

NextScan ==
    \/ \E v \in ScanValues : CallEq(v)
    \/ \E urlEncode \in BOOLEAN : CallToString(urlEncode)
    \/ CallToHumanReadableString

SpecScan == InitScan /\ [][NextScan]_vars

(***************************************************************************)
(* A server that answers every attempt with 429.  The timer of a sleep     *)
(* fires and the server answers, so the steps are weakly fair.             *)
(***************************************************************************)
NextRateLimited ==
    \/ \E ep \in PaginatedEndpoints, f \in FilterArgs(tql) : GetAgents(ep, f)
    \/ GetSchedulingRequest
    \/ \E header \in RetryAfterHeaders, rand \in RandomDraws : Respond429(header, rand)
    \/ SleepDone

SpecRateLimited == Init /\ [][NextRateLimited]_vars /\ WF_vars(NextRateLimited)

(***************************************************************************)
(* makeRequest under any budget.  The facade replaces a budget of 0 by the  *)
(* default (index.ts:87) and passes a negative one on as it is; makeRequest *)
(* itself takes whatever number its caller gives it.                        *)
(***************************************************************************)
DirectBudgets == {-1000, 0, 2000, 3000}

InitDirect == InitRequests(DirectBudgets) /\ cursors = <<>>

NextDirect ==
    \/ GetSchedulingRequest
    \/ \E body \in Bodies : RespondSuccess(body)
    \/ \E header \in RetryAfterHeaders, rand \in RandomDraws : Respond429(header, rand)
    \/ \E dm \in DataMessages : RespondHttpError(404, dm)
    \/ SleepDone

SpecDirect == InitDirect /\ [][NextDirect]_vars

(***************************************************************************)
(* Pagination against a server with a fixed cursor table: the request for   *)
(* page p is answered with the data <<p>> and next_page = cursors[p].       *)
(* Every page request succeeds.  MaxFetched caps the pages the model lets   *)
(* the server serve, so that a cursor cycle keeps the state space finite.   *)
(***************************************************************************)
MaxPageNo == 3
MaxFetched == 5

ServePage ==
    /\ pgPc = "running" /\ mrPc = "awaiting"
    /\ Len(pages) < MaxFetched
    /\ LET p == request.data[1].page[1]
       IN  ResolveWith([data |-> <<p>>, next_page |-> cursors[p]])

InitPaging ==
    /\ InitRequests({DefaultMaxRetryTimeMs})
    /\ cursors \in [1..MaxPageNo -> {Null} \cup {Some(n) : n \in 1..MaxPageNo}]

NextPaging ==
    \/ \E ep \in PaginatedEndpoints : GetAgents(ep, NullFilter)
    \/ ServePage

SpecPaging == InitPaging /\ [][NextPaging]_vars /\ WF_vars(NextPaging)

(***************************************************************************)
(* Two concurrent makeRequest invocations.  JavaScript runs each invocation *)
(* without interruption between two awaits, so the steps of an invocation   *)
(* are: its start up to the first axios call, the settling of an axios call *)
(* up to the next await or the end, and the end of a sleep up to the next   *)
(* axios call or the throw after the loop.                                  *)
(***************************************************************************)
ConcurrentEndpoints == {"/agents", "/teams"}
ConcurrentHeaders == {NoHeader, Header(TRUE, <<"1">>, Null)}
ConcurrentDraws == {50}

\* makeRequest.ts:29-32, 108-110: the loop condition before an attempt
CallLoop(c) ==
    IF LoopCondition(c.totalElapsedTime, maxRetryTimeMs)
    THEN [c EXCEPT !.pc = "awaiting"]
    ELSE [c EXCEPT !.pc = "failed",
                   !.error = BudgetExhaustedError(maxRetryTimeMs, c.endpoint)]

\* makeRequest.ts:19-32: invocation i is called
CallStart(i, ep) ==
    /\ calls[i].pc = "idle"
    /\ calls' = [calls EXCEPT ![i] = CallLoop([IdleCall EXCEPT !.endpoint = ep])]
    /\ UNCHANGED <<cfgVars, tqlVars, mrVars, pgVars, cursors>>

\* makeRequest.ts:48: the axios call of invocation i resolves
CallRespondSuccess(i) ==
    /\ calls[i].pc = "awaiting"
    /\ calls' = [calls EXCEPT ![i].pc = "returned"]
    /\ UNCHANGED <<cfgVars, tqlVars, mrVars, pgVars, cursors>>

\* makeRequest.ts:50-95: the axios call of invocation i rejects with a 429
CallRespond429(i, header, rand) ==
    LET c == calls[i]
        delay == CapDelay(ComputeRetryAfterMs(header, c.retries, rand), maxRetryDelayMs)
    IN  /\ c.pc = "awaiting"
        /\ calls' = [calls EXCEPT ![i] =
              IF BudgetExceeded(c.totalElapsedTime, delay, maxRetryTimeMs)
              THEN [c EXCEPT !.retryAfterMs = delay,
                             !.pc = "failed",
                             !.error = BudgetExhaustedError(maxRetryTimeMs, c.endpoint)]
              ELSE [c EXCEPT !.retryAfterMs = delay, !.pc = "sleeping"]]
        /\ UNCHANGED <<cfgVars, tqlVars, mrVars, pgVars, cursors>>

CallSleepDone_SharedCounters(i) ==
    /\ calls[i].pc = "sleeping"
    /\ calls' = [j \in Invocations |->
                   IF j = i
                   THEN CallLoop([calls[i] EXCEPT
                            !.totalElapsedTime = @ + calls[i].retryAfterMs,
                            !.retries = NextRetries(@),
                            !.slept = Append(@, calls[i].retryAfterMs)])
                   ELSE [calls[j] EXCEPT
                            !.totalElapsedTime = @ + calls[i].retryAfterMs,
                            !.retries = NextRetries(@)]]
    /\ UNCHANGED <<cfgVars, tqlVars, mrVars, pgVars, cursors>>

\* makeRequest.ts:95-97, then 32: the sleep of invocation i ends
CallSleepDone(i) ==
    /\ calls[i].pc = "sleeping"
    /\ calls' = [calls EXCEPT ![i] =
                   CallLoop([calls[i] EXCEPT
                       !.totalElapsedTime = @ + calls[i].retryAfterMs,
                       !.retries = NextRetries(@),
                       !.slept = Append(@, calls[i].retryAfterMs)])]
    /\ UNCHANGED <<cfgVars, tqlVars, mrVars, pgVars, cursors>>

\* makeRequest.ts:98-104: the axios call of invocation i rejects with another error
CallOtherError(i, error) ==
    /\ calls[i].pc = "awaiting"
    /\ calls' = [calls EXCEPT ![i] =
                   IF HandleError(error).threw
                   THEN [calls[i] EXCEPT !.pc = "failed", !.error = HandleError(error).error]
                   ELSE CallLoop(calls[i])]
    /\ UNCHANGED <<cfgVars, tqlVars, mrVars, pgVars, cursors>>

ConcurrentErrors == {ResponseError(500, ""), ResponseError(404, ""), NoResponseError}

NextConcurrent ==
    \/ \E i \in Invocations, ep \in ConcurrentEndpoints : CallStart(i, ep)
    \/ \E i \in Invocations : CallRespondSuccess(i)
    \/ \E i \in Invocations, header \in ConcurrentHeaders, rand \in ConcurrentDraws :
          CallRespond429(i, header, rand)
    \/ \E i \in Invocations : CallSleepDone(i)
    \/ \E i \in Invocations, error \in ConcurrentErrors : CallOtherError(i, error)

SpecConcurrent == Init /\ [][NextConcurrent]_vars

(***************************************************************************)
(* Properties                                                              *)
(***************************************************************************)
RECURSIVE Flatten(_)
Flatten(seqs) == IF seqs = <<>> THEN <<>> ELSE Head(seqs) \o Flatten(Tail(seqs))

\* C1: when a page request of makePaginatedRequest is answered with 404,
\* makePaginatedRequest completes and returns an empty sequence.
C1_NotFoundYieldsEmpty ==
    (pgPc # "idle" /\ lastOutcome = "404") => (pgPc = "returned" /\ results = <<>>)

\* C2: a 429 whose capped delay d has totalElapsedTime + d >= maxRetryTimeMs ends
\* the call with the budget-exhausted error naming the endpoint and the budget;
\* no sleep and no further attempt follows (a failed call takes no more steps).
C2_BudgetStopsRetry ==
    [][ /\ (/\ mrPc = "awaiting"
            /\ lastOutcome' = "429"
            /\ totalElapsedTime + retryAfterMs' >= maxRetryTimeMs)
           => /\ mrPc' = "failed"
              /\ mrError' = BudgetExhaustedError(maxRetryTimeMs, endpoint)
        /\ mrPc = "failed" => UNCHANGED mrVars ]_vars

C2_Witness ==
    /\ mrPc = "failed"
    /\ lastOutcome = "429"
    /\ retries > 0
    /\ totalElapsedTime + retryAfterMs = maxRetryTimeMs
    /\ mrError = BudgetExhaustedError(maxRetryTimeMs, endpoint)

\* C3: if the server answers every attempt with 429, the call eventually fails
\* with the budget-exhausted error, whatever the Retry-After values are.
C3_RateLimitedEventuallyFails ==
    <>(mrPc = "failed" /\ mrError = BudgetExhaustedError(maxRetryTimeMs, endpoint))

\* C4: after a non-2xx status other than 429 (404 included) or a transport failure
\* with no response, the call has failed and issues no further attempt.
C4_OtherErrorsFailAtOnce ==
    lastOutcome \in {"404", "httpError", "noResponse"} => mrPc = "failed"

\* C5: what makePaginatedRequest returns is the concatenation of the data arrays
\* of the fetched pages, in fetch order.
C5_ResultIsConcatenation ==
    pgPc = "returned" => results = Flatten(pages)

C5_Witness ==
    /\ pgPc = "returned"
    /\ pages = << <<1, 2>>, <<3>> >>
    /\ results = <<1, 2, 3>>

\* C6 (as claimed): after a page response, makePaginatedRequest has returned exactly
\* when next_page is null, and otherwise is requesting page next_page.
C6_StopsExactlyOnNull ==
    (pgPc \in {"running", "returned"} /\ pages # <<>>) =>
        IF nextPage = Null
        THEN pgPc = "returned"
        ELSE pgPc = "running" /\ mrPc \in {"awaiting", "sleeping"}
             /\ request.data[1].page = nextPage

\* C6 (amended): after a page response, makePaginatedRequest has returned exactly
\* when next_page is null or 0, and otherwise is requesting page next_page.
C6_StopsExactlyOnFalsy ==
    (pgPc \in {"running", "returned"} /\ pages # <<>>) =>
        IF nextPage = Null \/ nextPage = Some(0)
        THEN pgPc = "returned"
        ELSE pgPc = "running" /\ mrPc \in {"awaiting", "sleeping"}
             /\ request.data[1].page = nextPage

C6_Witness ==
    /\ pgPc = "returned"
    /\ nextPage = Some(0)
    /\ results = <<1, 2>>

\* C7: once makeRequest has failed for a page, makePaginatedRequest has failed; it
\* never returns the items accumulated from earlier pages.
C7_NoPartialReturn ==
    pageErr # NoError => (pgPc = "failed" /\ pgError # NoError)

C7_Witness ==
    /\ pageErr # NoError
    /\ Len(pages) > 0
    /\ results # <<>>
    /\ pgPc = "failed"

\* C8: the failure makePaginatedRequest surfaces is the failure makeRequest threw
\* for the page: same kind, same message.
C8_SameFailureSurfaces ==
    pgPc = "failed" => pgError.message = pageErr.message

\* C9: the filter field of every page request is the rendered string of the
\* builder the caller passed (identical to toString()); a null filter is sent as null.
C9_BuilderSentAsRenderedString ==
    (pgPc = "running" /\ mrPc = "awaiting") =>
        request.data[1].filter =
            (IF filter.kind = "builder"
             THEN StringFilter(ToString(filter.obj, TRUE).str)
             ELSE filter)

ClaimedUrlEncoded ==
    StatusAttr \o <<" ", "E", "Q", " ">> \o Scheduled \o <<" ", "A", "N", "D", " ">> \o NameAttr
    \o <<" ", "L", "I", "K", "E", " ", "\"", "J", "o", "h", "n", "~", "D", "o", "e", "\"">>

HumanReadable ==
    StatusAttr \o <<" ", "E", "Q", " ">> \o Scheduled \o <<" ", "A", "N", "D", " ">> \o NameAttr
    \o <<" ", "L", "I", "K", "E", " ", "\"", "J", "o", "h", "n", " ", "D", "o", "e", "\"">>

UrlEncoded ==
    StatusAttr \o <<"~", "E", "Q", "~">> \o Scheduled \o <<"~", "A", "N", "D", "~">> \o NameAttr
    \o <<"~", "L", "I", "K", "E", "~", "\"", "J", "o", "h", "n", " ", "D", "o", "e", "\"">>

\* C10 (as claimed): the example filter renders, URL-encoded, to
\* status EQ scheduled AND name LIKE "John~Doe", and human-readable to
\* status EQ scheduled AND name LIKE "John Doe".
C10_SpaceInValueBecomesTilde ==
    tql = ExampleFilter =>
        /\ tqlCall = "toString(true)" => tqlOut.str = ClaimedUrlEncoded
        /\ tqlCall = "toHumanReadableString" => tqlOut.str = HumanReadable

\* C10 (amended): the example filter renders, URL-encoded, to
\* status~EQ~scheduled~AND~name~LIKE~"John Doe" (spaces outside the quoted value
\* become tildes, the space inside it stays), and human-readable to
\* status EQ scheduled AND name LIKE "John Doe".
C10_SpaceInValueIsKept ==
    tql = ExampleFilter =>
        /\ tqlCall = "toString(true)" => tqlOut.str = UrlEncoded
        /\ tqlCall = "toHumanReadableString" => tqlOut.str = HumanReadable

C10_Witness ==
    /\ tql = ExampleFilter
    /\ tqlCall = "toString(true)"
    /\ tqlOut.ok
    /\ tqlOut.str = UrlEncoded

(***************************************************************************)
(* The builder's call sequences                                            *)
(***************************************************************************)
OperatorMethods == {"eq", "notEq", "like", "notLike", "in", "notIn", "gt", "gte", "lt", "lte"}
ConnectorMethods == {"and", "or"}
RenderMethods ==
    {"toString(true)", "toString(false)", "toHumanReadableString", "valueOf", "toPrimitive"}

\* C11: an operator method called directly after an operator method that
\* finalized a predicate (no and/or in between) fails with the error of
\* setComparison and adds no predicate.
C11_SecondOperatorFails ==
    [][ (tqlCall \in OperatorMethods /\ tqlOut.ok /\ tqlCall' \in OperatorMethods)
          => /\ ~tqlOut'.ok
             /\ tqlOut'.err \in
                  {"Must call filter() or and() or or() before using comparison operators",
                   "IN operator requires a non-empty array",
                   "NOT_IN operator requires a non-empty array"}
             /\ tql' = tql ]_vars

C11_Witness ==
    /\ tqlCall \in OperatorMethods
    /\ ~tqlOut.ok
    /\ tqlOut.err = "Must call filter() or and() or or() before using comparison operators"
    /\ Len(tql.predicates) = 1
    /\ tql.logicalOperators = <<>>

\* C12: and(attr) / or(attr) called on a builder with zero finalized predicates
\* fails with the error of and / or and leaves the builder as it was.
C12_ConnectorNeedsPredicate ==
    [][ (tqlCall' \in ConnectorMethods /\ Len(tql.predicates) = 0)
          => /\ ~tqlOut'.ok
             /\ tqlOut'.err = (IF tqlCall' = "and"
                               THEN "Must have at least one predicate before using AND"
                               ELSE "Must have at least one predicate before using OR")
             /\ tql' = tql ]_vars

C12_Witness ==
    /\ tqlCall = "and"
    /\ ~tqlOut.ok
    /\ tqlOut.err = "Must have at least one predicate before using AND"
    /\ Len(tql.predicates) = 0
    /\ tql.currentAttribute = StatusAttr


\* C13: while an attribute is pending (supplied by the constructor or by and/or,
\* no operator applied to it yet), every call of and / or fails.
C13_ConnectorWhileAwaitingFails ==
    [][ (tql.currentAttribute # <<>> /\ tqlCall' \in ConnectorMethods) => ~tqlOut'.ok ]_vars

\* C14: toString (either urlEncode), toHumanReadableString, valueOf and the
\* primitive conversion fail with the empty-filter error when the builder has no
\* finalized predicate, and succeed when it has at least one.
C14_RenderNeedsPredicate ==
    [][ tqlCall' \in RenderMethods
          => IF Len(tql.predicates) = 0
             THEN /\ ~tqlOut'.ok
                  /\ tqlOut'.err = "Filter must have at least one predicate"
             ELSE tqlOut'.ok /\ tqlOut'.err = "" ]_vars

C14_Witness ==
    /\ tqlCall = "toPrimitive"
    /\ ~tqlOut.ok
    /\ tqlOut.err = "Filter must have at least one predicate"
    /\ Len(tql.predicates) = 0

\* C15: in(values) / notIn(values) fail with the invalid-argument error and
\* finalize nothing when values is empty or no array; with a non-empty array, on
\* a builder whose attribute awaits its operator, they finalize one IN / NOT_IN
\* predicate holding the values.
C15_InRequiresNonEmptyArray ==
    [][ \A v \in ArrayValues :
          /\ CallIn(v) =>
               IF v.kind # "array" \/ Len(v.items) = 0
               THEN /\ ~tqlOut'.ok
                    /\ tqlOut'.err = "IN operator requires a non-empty array"
                    /\ tql' = tql
               ELSE tql.currentAttribute # <<>> =>
                      /\ tqlOut'.ok
                      /\ tql'.predicates =
                           Append(tql.predicates, [attribute |-> tql.currentAttribute,
                                                   operator |-> "IN", value |-> v])
          /\ CallNotIn(v) =>
               IF v.kind # "array" \/ Len(v.items) = 0
               THEN /\ ~tqlOut'.ok
                    /\ tqlOut'.err = "NOT_IN operator requires a non-empty array"
                    /\ tql' = tql
               ELSE tql.currentAttribute # <<>> =>
                      /\ tqlOut'.ok
                      /\ tql'.predicates =
                           Append(tql.predicates, [attribute |-> tql.currentAttribute,
                                                   operator |-> "NOT_IN", value |-> v]) ]_vars

C15_Witness ==
    /\ tqlCall = "in"
    /\ ~tqlOut.ok
    /\ tqlOut.err = "IN operator requires a non-empty array"
    /\ tql.currentAttribute # <<>>
    /\ Len(tql.predicates) = 1

\* what follows "<attribute> <operator> " in the rendering of a one-predicate filter
RenderedValue ==
    LET head == tql.predicates[1].attribute \o <<" ">>
                \o OperatorText(tql.predicates[1].operator) \o <<" ">>
    IN  SubSeq(tqlOut.str, Len(head) + 1, Len(tqlOut.str))

IsBare(str) ==
    /\ str # <<>>
    /\ \A i \in 1..Len(str) : str[i] \notin {" ", "\t", "\n", "\r", ",", "~", "\"", "\\"}

ClaimedQuoted(str) ==
    <<"\"">>
    \o Flatten([i \in 1..Len(str) |->
                  IF str[i] \in {"\\", "\""} THEN <<"\\", str[i]>> ELSE <<str[i]>>])
    \o <<"\"">>

\* C16: a string value is rendered bare iff it is non-empty and has no white
\* space, comma, tilde, double quote or backslash; otherwise it is rendered in
\* double quotes, each backslash and double quote preceded by one backslash and
\* every other character unchanged.
C16_StringQuoting ==
    (/\ tqlCall \in RenderMethods
     /\ tqlOut.ok
     /\ Len(tql.predicates) = 1
     /\ tql.predicates[1].value.kind = "string")
    => RenderedValue = (IF IsBare(tql.predicates[1].value.str)
                        THEN tql.predicates[1].value.str
                        ELSE ClaimedQuoted(tql.predicates[1].value.str))

C16_Witness ==
    /\ tqlCall = "toString(true)"
    /\ tqlOut.ok
    /\ Len(tql.predicates) = 1
    /\ tql.predicates[1].value = StrVal(<<"\\", "\"">>)
    /\ RenderedValue = <<"\"", "\\", "\\", "\\", "\"", "\"">>

\* C17: an array value is rendered as its items, each by the single-value rule,
\* in the given order with one bare comma between neighbours and none before the
\* first or after the last.
C17_ArrayJoinedByComma ==
    (/\ tqlCall \in RenderMethods
     /\ tqlOut.ok
     /\ Len(tql.predicates) = 1
     /\ tql.predicates[1].value.kind = "array")
    => RenderedValue =
         Flatten([i \in 1..Len(tql.predicates[1].value.items) |->
                    (IF i = 1 THEN <<>> ELSE <<",">>)
                    \o FormatSingleValue(tql.predicates[1].value.items[i])])

C17_Witness ==
    /\ tqlCall = "toHumanReadableString"
    /\ tqlOut.ok
    /\ Len(tql.predicates) = 1
    /\ tql.predicates[1].value = ArrVal(<<StrVal(<<"a">>), StrVal(<<"b">>), StrVal(<<"c">>)>>)
    /\ tqlOut.str = StatusAttr \o <<" ", "I", "N", " ", "a", ",", "b", ",", "c">>

(***************************************************************************)
(* The delay after a 429.  In a state where the latest attempt was answered *)
(* 429 and the call sleeps or has failed, retryAfterHeader, retries and    *)
(* retryAfterMs are the header, the attempt count and the capped delay of  *)
(* that 429.                                                               *)
(***************************************************************************)
After429 == lastOutcome = "429" /\ mrPc \in {"sleeping", "failed"}

\* attempt counts of the policy checks at the default cap
MaxAttempt == 7

\* The delay policy as a function of header, attempt count and draw does not
\* depend on the state: it is checked once, before any call is made.
PolicyChecked == mrPc = "idle" /\ pgPc = "idle"

\* d is within 25% of 1000 * 2^k clamped to cap, and not above cap
WithinBand(d, k, cap) ==
    /\ 4 * d >= 3 * Min(1000 * (2 ^ k), cap)
    /\ 4 * d <= 5 * Min(1000 * (2 ^ k), cap)
    /\ d <= cap

\* C18: after a 429 without Retry-After header at attempt count k the delay used
\* is within 25% of 1000 * 2^k clamped to maxRetryDelayMs and never above
\* maxRetryDelayMs; at the default cap the 7th and later retries wait 45-60 s.
C18_BackoffWithinBand ==
    /\ (After429 /\ ~retryAfterHeader.present)
         => WithinBand(retryAfterMs, retries, maxRetryDelayMs)
    /\ PolicyChecked =>
         \A k \in 0..MaxAttempt, rand \in RandomDraws :
           LET d == CapDelay(ComputeRetryAfterMs(NoHeader, k, rand), DefaultMaxRetryDelayMs)
           IN  /\ WithinBand(d, k, DefaultMaxRetryDelayMs)
               /\ k >= 6 => (45000 <= d /\ d <= 60000)

C18_Witness ==
    /\ After429
    /\ ~retryAfterHeader.present
    /\ mrPc = "sleeping"
    /\ retries = 1
    /\ retryAfterMs = 2480

IntegerHeaderCases ==
    { [text |-> <<"0">>, n |-> 0], [text |-> <<"1">>, n |-> 1], [text |-> <<"2">>, n |-> 2],
      [text |-> <<"3">>, n |-> 3],
      [text |-> <<"-", "1">>, n |-> -1], [text |-> <<"1", "2", "0">>, n |-> 120] }

\* C19: after a 429 whose Retry-After header is the integer n, with
\* n * 1000 <= maxRetryDelayMs, the delay is exactly n * 1000 ms, whatever the
\* attempt count and the random draw ("120" gives 120000 ms under a cap of 120000).
C19_RetryAfterSecondsExact ==
    /\ \A c \in IntegerHeaderCases :
         (/\ After429
          /\ retryAfterHeader.present
          /\ retryAfterHeader.text = c.text
          /\ c.n * 1000 <= maxRetryDelayMs)
         => retryAfterMs = c.n * 1000
    /\ PolicyChecked =>
         \A c \in IntegerHeaderCases, k \in 0..MaxAttempt, rand \in RandomDraws :
           CapDelay(ComputeRetryAfterMs(Header(TRUE, c.text, Null), k, rand), 120000)
             = c.n * 1000

C19_Witness ==
    /\ After429
    /\ mrPc = "sleeping"
    /\ retryAfterHeader = Header(TRUE, <<"2">>, Null)
    /\ retries = 2
    /\ maxRetryDelayMs = 3000
    /\ retryAfterMs = 2000

\* C20: after a 429 whose Retry-After header is neither an integer nor a date
\* the delay is one that an absent header gives at the same attempt count, and
\* the call sleeps or fails with the budget-exhausted error only.
C20_UnparseableFallsBack ==
    (/\ After429
     /\ retryAfterHeader.present
     /\ retryAfterHeader.text = <<"b", "a", "n">>)
    => /\ \E rand \in RandomDraws :
            retryAfterMs = CapDelay(ComputeRetryAfterMs(NoHeader, retries, rand), maxRetryDelayMs)
       /\ WithinBand(retryAfterMs, retries, maxRetryDelayMs)
       /\ mrPc = "failed" => mrError = BudgetExhaustedError(maxRetryTimeMs, endpoint)

C20_Witness ==
    /\ After429
    /\ mrPc = "sleeping"
    /\ retryAfterHeader.text = <<"b", "a", "n">>
    /\ retries = 1
    /\ retryAfterMs = 1500

\* C21: every delay makeRequest sleeps between two attempts is at most
\* maxRetryDelayMs, whether it comes from an integer Retry-After, a date
\* Retry-After or the exponential backoff.
C21_SleepAtMostCap ==
    mrPc = "sleeping" => retryAfterMs <= maxRetryDelayMs

C21_Witness ==
    /\ mrPc = "sleeping"
    /\ ~retryAfterHeader.present
    /\ retries = 2
    /\ maxRetryDelayMs = 2000
    /\ retryAfterMs = 2000

ErrorInputs ==
    {ResponseError(status, dm) : status \in {400, 404, 429, 500}, dm \in DataMessages}
    \cup {NoResponseError, SetupError, BudgetExhaustedError(3000, "/agents")}

\* C23: handleError returns (an empty array) exactly for an error that carries
\* a response with status 404, and throws for every other error.  In makeRequest
\* the call therefore goes on after a 404 and has failed after any other error.
C23_ReturnsOnlyOn404 ==
    /\ lastOutcome = "404" => mrPc = "awaiting"
    /\ lastOutcome \in {"httpError", "noResponse", "setupError"}
         => (mrPc = "failed" /\ mrError # NoError)
    /\ PolicyChecked =>
         \A e \in ErrorInputs :
           /\ HandleError(e).threw <=> ~(e.hasResponse /\ e.status = 404)
           /\ HandleError(e).threw => HandleError(e).error # NoError

C23_Witness ==
    /\ lastOutcome = "404"
    /\ mrPc = "awaiting"
    /\ pgPc = "running"
    /\ Len(pages) = 1

C25_FreshBudgetPerPage ==
    [][ (pgPc' = "running" /\ (pgPc = "idle" \/ Len(pages') = Len(pages) + 1))
          => /\ mrPc' = "awaiting"
             /\ lastOutcome' = "none"
             /\ totalElapsedTime' = 0
             /\ retries' = 0
             /\ request' = PageRequest(endpoint', filter', nextPage') ]_vars

C25_Witness ==
    /\ pgPc = "running"
    /\ Len(pages) = 1
    /\ mrPc = "awaiting"
    /\ lastOutcome = "none"
    /\ totalElapsedTime = 0
    /\ retries = 0
    /\ request = PageRequest(endpoint, filter, Some(2))

RECURSIVE SumSeq(_)
SumSeq(q) == IF q = <<>> THEN 0 ELSE Head(q) + SumSeq(Tail(q))

\* C26: two makeRequest invocations running concurrently do not influence each
\* other: a step of one (a 429, a sleep, a failure) leaves the other's elapsed
\* time, attempt count, delay and outcome untouched, and each invocation's
\* elapsed time and attempt count are those of its own sleeps alone.
C26_InvocationsIndependent ==
    [][ \A i \in Invocations :
          /\ \A j \in Invocations \ {i} : calls'[i] # calls[i] => calls'[j] = calls[j]
          /\ calls'[i].totalElapsedTime = SumSeq(calls'[i].slept)
          /\ calls'[i].retries = Min(Len(calls'[i].slept), RetriesSat) ]_vars

C26_Witness ==
    /\ calls["A"].pc = "failed"
    /\ calls["A"].error = BudgetExhaustedError(maxRetryTimeMs, "/agents")
    /\ calls["A"].retries = 2
    /\ calls["B"].pc = "sleeping"
    /\ calls["B"].retries = 0
    /\ calls["B"].totalElapsedTime = 0
    /\ calls["B"].retryAfterMs = 1000

RECURSIVE ScanMode(_, _)
\* How the character at position k (from 1) of str is read: "out" (outside a
\* quoted span), "in" (inside one), or "escaped" (the second character of the
\* unit made by a backslash inside quotes and the character after it).
ScanMode(str, k) ==
    IF k = 1 THEN "out"
    ELSE LET before == ScanMode(str, k - 1)
             c == str[k - 1]
         IN  IF before = "escaped" THEN "in"
             ELSE IF before = "in"
                  THEN IF c = "\\" THEN "escaped"
                       ELSE IF c = "\"" THEN "out" ELSE "in"
                  ELSE IF c = "\"" THEN "in" ELSE "out"

TildeOutsideQuotes(str) ==
    [k \in 1..Len(str) |->
        IF ScanMode(str, k) = "out" /\ IsWhitespace(str[k]) THEN "~" ELSE str[k]]

\* C27: in the URL-encoded rendering every whitespace character outside a
\* quoted span is a tilde and every other character, all characters inside a
\* quoted span included, is the character of the human-readable rendering; a
\* backslash inside quotes and the character after it are one unit that does
\* not toggle the quote state.
C27_TildeOnlyOutsideQuotes ==
    (tqlCall = "toString(true)" /\ tqlOut.ok)
        => tqlOut.str = TildeOutsideQuotes(ToHumanReadableString(tql).str)

C27_Witness ==
    /\ tqlCall = "toString(true)"
    /\ tqlOut.ok
    /\ ToHumanReadableString(tql).str =
         <<"a", " ", "E", "Q", " ", "\"", "\\", "\"", " ", "\"">>
    /\ tqlOut.str =
         <<"a", "~", "E", "Q", "~", "\"", "\\", "\"", " ", "\"">>

ConnectorOf(method) == IF method = "and" THEN "AND" ELSE "OR"

\* C28: the human-readable rendering lists the finalized predicates in
\* insertion order, each as "<attribute> <OPERATOR> <value>"; the first stands
\* alone, and every later one is appended to the rendering so far, after a
\* space, the connector of the and/or call that supplied its attribute, and
\* another space.
C28_ConnectorOfSupplyingCall ==
    [][ (tqlCall' \in OperatorMethods /\ tqlOut'.ok)
          => /\ Len(tql'.predicates) = Len(tql.predicates) + 1
             /\ SubSeq(tql'.predicates, 1, Len(tql.predicates)) = tql.predicates
             /\ Len(tql.predicates) = 0
                  => ToHumanReadableString(tql').str = PredicateText(tql'.predicates[1])
             /\ (tqlCall \in ConnectorMethods /\ tqlOut.ok)
                  => ToHumanReadableString(tql').str =
                        ToHumanReadableString(tql).str
                        \o <<" ">> \o OperatorText(ConnectorOf(tqlCall)) \o <<" ">>
                        \o PredicateText(tql'.predicates[Len(tql'.predicates)]) ]_vars

\* C29: the number of stored connectors is the number of finalized predicates
\* minus one while the builder awaits a connector (no attribute pending), and
\* the number of finalized predicates while it awaits an operator.
C29_ConnectorCount ==
    Len(tql.logicalOperators) =
        IF tql.currentAttribute = <<>>
        THEN Len(tql.predicates) - 1
        ELSE Len(tql.predicates)

WithoutDangling(b) ==
    [b EXCEPT !.currentAttribute = <<>>,
              !.logicalOperators = SubSeq(@, 1, Len(b.predicates) - 1)]

\* C30: a successful and/or call changes no rendering, and a builder that ends
\* with a dangling attribute renders as the builder without that attribute and
\* without the connectors after its last predicate: the attribute is omitted
\* and no trailing connector appears.
C30_DanglingAttributeOmitted ==
    [][ /\ (tqlCall' \in ConnectorMethods /\ tqlOut'.ok)
          => \A urlEncode \in BOOLEAN :
                /\ ToString(tql', urlEncode).ok
                /\ ToString(tql', urlEncode).str = ToString(tql, urlEncode).str
        /\ (tqlCall' \in {"toString(true)", "toString(false)"} /\ tqlOut'.ok
            /\ tql.currentAttribute # <<>>)
          => /\ tqlOut'.str = ToString(WithoutDangling(tql), tqlCall' = "toString(true)").str
             /\ tql'.currentAttribute = tql.currentAttribute ]_vars

C30_Witness ==
    /\ tqlCall = "toString(false)"
    /\ tqlOut.ok
    /\ tql.currentAttribute = NameAttr
    /\ Len(tql.predicates) = 1
    /\ tql.logicalOperators = <<"AND">>
    /\ tqlOut.str = PredicateText(tql.predicates[1])

\* C31: every transport attempt of makeRequest is issued with
\* totalElapsedTime < maxRetryTimeMs, the test being made before the attempt;
\* with maxRetryTimeMs <= 0 no attempt is issued and the call fails with the
\* budget error.
C31_CheckedBeforeEachAttempt ==
    /\ mrPc = "awaiting" => totalElapsedTime < maxRetryTimeMs
    /\ maxRetryTimeMs <= 0
         => /\ mrPc \in {"idle", "failed"}
            /\ request = NoRequest
            /\ lastOutcome = "none"
            /\ mrPc = "failed" => mrError = BudgetExhaustedError(maxRetryTimeMs, endpoint)

C31_Witness ==
    /\ maxRetryTimeMs = 0
    /\ mrPc = "failed"
    /\ request = NoRequest
    /\ mrError = BudgetExhaustedError(0, "/scheduling_requests/id")

\* C32: makeRequest returns a value only as the body of a 2xx response, and at
\* the first 2xx response: whatever 429s came before, the successful attempt
\* ends the call with its body, and no attempt or sleep follows.
C32_ReturnsAtFirstSuccess ==
    [][ /\ \A body \in Bodies :
             (RespondSuccess(body) /\ pgPc = "idle")
                => (mrPc' = "returned" /\ mrResult' = <<body>>)
        /\ lastOutcome' = "ok" => mrPc' = "returned"
        /\ (mrPc' = "returned" /\ mrPc # "returned")
             => (mrPc = "awaiting" /\ lastOutcome' = "ok" /\ mrResult' # <<>>
                 /\ UNCHANGED <<totalElapsedTime, retries>>)
        /\ mrPc = "returned" => UNCHANGED mrVars ]_vars

C32_Witness ==
    /\ pgPc = "idle"
    /\ mrPc = "returned"
    /\ lastOutcome = "ok"
    /\ mrResult # <<>>
    /\ retries = 2
    /\ totalElapsedTime > 0

\* C33: makePaginatedRequest fetches pages one at a time.  The first request
\* carries page 1; a later request is issued only when a response has been
\* appended to the accumulator and carries that response's next_page; every
\* page request carries the endpoint and the filter of the call.
C33_PagesOneAtATime ==
    [][ /\ pgPc' = "running"
          => /\ mrPc' \in {"awaiting", "sleeping"}
             /\ request' = [url |-> endpoint',
                            data |-> <<[filter |-> filter', page |-> nextPage']>>]
             /\ results' = Flatten(pages')
        /\ (pgPc = "idle" /\ pgPc' = "running") => (nextPage' = Some(1) /\ pages' = <<>>)
        /\ \A body \in Bodies :
             (RespondSuccess(body) /\ pgPc = "running" /\ pgPc' = "running")
                => /\ nextPage' = body.next_page
                   /\ pages' = Append(pages, body.data)
        /\ (pgPc = "running" /\ request' # request) => Len(pages') = Len(pages) + 1
        /\ pgPc = "running" => (filter' = filter /\ endpoint' = endpoint) ]_vars

C33_Witness ==
    /\ pgPc = "running"
    /\ mrPc = "sleeping"
    /\ Len(pages) = 1
    /\ results = pages[1]
    /\ results # <<>>
    /\ nextPage = Some(2)
    /\ request.data[1].page = Some(2)
    /\ request.data[1].filter = filter

\* C34: every backoff delay of makeRequest is non-negative and the elapsed
\* time never decreases from one attempt to the next of a call, whatever
\* Retry-After header the server sends.
C34_DelayNeverNegative ==
    [][ /\ mrPc' = "sleeping" => retryAfterMs' >= 0
        /\ mrPc = "sleeping" => totalElapsedTime' >= totalElapsedTime ]_vars

\* C35: every backoff sleep of makeRequest is followed by another attempt of
\* the same request, the elapsed time after the sleep being still below
\* maxRetryTimeMs; once an attempt has been made, the budget failure comes only
\* from the test made before sleeping on a 429, never from the loop condition.
C35_SleepThenAttempt ==
    [][ /\ mrPc = "sleeping"
          => /\ mrPc' = "awaiting"
             /\ request' = request
             /\ totalElapsedTime' < maxRetryTimeMs
        /\ (mrPc \notin {"idle", "failed"} /\ mrPc' = "failed"
            /\ mrError' = BudgetExhaustedError(maxRetryTimeMs, endpoint))
          => /\ mrPc = "awaiting"
             /\ lastOutcome' = "429"
             /\ totalElapsedTime' = totalElapsedTime
             /\ totalElapsedTime + retryAfterMs' >= maxRetryTimeMs ]_vars

C35_Witness ==
    /\ mrPc = "awaiting"
    /\ lastOutcome = "429"
    /\ retries = 2
    /\ maxRetryTimeMs = 3000
    /\ totalElapsedTime = 2000
    /\ retryAfterMs = 1000

RECURSIVE CursorPath(_, _, _)
\* the pages requested when the cursors of table t are followed from page p,
\* cut after n requests
CursorPath(t, p, n) ==
    IF n = 0 THEN <<>>
    ELSE <<p>> \o (IF t[p] = Null THEN <<>> ELSE CursorPath(t, t[p][1], n - 1))

\* following the cursors from page 1 ends with null / comes back to a page
EndingCursors == Len(CursorPath(cursors, 1, MaxPageNo + 1)) <= MaxPageNo
CyclingCursors == Len(CursorPath(cursors, 1, MaxPageNo + 1)) > MaxPageNo
IncreasingCursors ==
    LET path == CursorPath(cursors, 1, MaxPageNo + 1)
    IN  EndingCursors /\ \A i \in 1..(Len(path) - 1) : path[i] < path[i + 1]

\* C36: when every page request succeeds and the server's next_page values are
\* strictly increasing and end with null, makePaginatedRequest terminates and
\* has requested each page on the way exactly once, in order; when the
\* server's next_page values come back to a page already served, it never
\* returns and goes on requesting pages as long as the server serves them.
C36_TerminatesUnlessCursorsCycle ==
    /\ IncreasingCursors => <>(pgPc = "returned")
    /\ []((IncreasingCursors /\ pgPc = "returned")
            => /\ pages = [i \in 1..Len(CursorPath(cursors, 1, MaxPageNo)) |->
                              <<CursorPath(cursors, 1, MaxPageNo)[i]>>]
               /\ results = CursorPath(cursors, 1, MaxPageNo))
    /\ CyclingCursors => [](pgPc # "returned" /\ pgPc # "failed")
    /\ CyclingCursors => <>(pgPc = "running" /\ Len(pages) = MaxFetched)

C36_Witness ==
    /\ IncreasingCursors
    /\ pgPc = "returned"
    /\ pages = << <<1>>, <<2>>, <<3>> >>
    /\ results = <<1, 2, 3>>
    /\ nextPage = Null

\* C37: a builder call that fails (an operator with no pending attribute,
\* in / notIn with an empty or non-array argument, and / or with no finalized
\* predicate, a render with no predicate) leaves the builder as it was.
C37_FailedCallChangesNothing ==
    [][ (tqlCall' \in OperatorMethods \cup ConnectorMethods \cup RenderMethods /\ ~tqlOut'.ok)
          => tql' = tql ]_vars

C37_Witness ==
    /\ tqlCall = "in"
    /\ ~tqlOut.ok
    /\ tqlOut.err = "IN operator requires a non-empty array"
    /\ tql.currentAttribute = NameAttr
    /\ Len(tql.predicates) = 1
    /\ tql.logicalOperators = <<"AND">>

\* C38: rendering (toString, toHumanReadableString, valueOf, the primitive
\* conversion) leaves the builder as it was: rendering again gives the same
\* string, and a rendered builder still accepts and / or.
C38_RenderChangesNothing ==
    [][ tqlCall' \in RenderMethods
          => /\ tql' = tql
             /\ tqlOut'.ok
                  => /\ tqlOut'.str = ToString(tql', tqlCall' # "toString(false)"
                                                     /\ tqlCall' # "toHumanReadableString").str
                     /\ And(tql', NameAttr).ok
                     /\ Or(tql', NameAttr).ok ]_vars

C38_Witness ==
    /\ tqlCall = "valueOf"
    /\ tqlOut.ok
    /\ tql.currentAttribute = NameAttr
    /\ Len(tql.predicates) = 1
    /\ tql.logicalOperators = <<"OR">>

\* whether the quote tracker of replaceSpacesOutsideQuotes is inside quotes
\* when it has scanned all of str
TrackerInsideAfter(str) ==
    ReplaceLoop(str, [i |-> 0, insideQuotes |-> FALSE, result |-> <<>>], Len(str)).insideQuotes

RECURSIVE Unescape(_)
\* drops each escaping backslash and keeps the character after it
Unescape(str) ==
    IF str = <<>> THEN <<>>
    ELSE IF Head(str) = "\\" /\ Len(str) >= 2
         THEN <<str[2]>> \o Unescape(Tail(Tail(str)))
         ELSE <<Head(str)>> \o Unescape(Tail(str))

Unquote(text) == Unescape(SubSeq(text, 2, Len(text) - 1))

AndMore == <<" ", "A", "N", "D", " ", "x">>
AndMoreEncoded == <<"~", "A", "N", "D", "~", "x">>

\* C39: a string value (alone or as an array item; the attribute holding no
\* double quote) cannot break out of its quoting.  The quote tracker is outside
\* quotes just before and just after the rendered value, the value is in the
\* URL-encoded rendering as in the human-readable one, separators that follow
\* it become tildes, and unquoting a quoted value gives the value back.
C39_ValueStaysInsideQuotes ==
    (tqlCall = "toString(true)" /\ tqlOut.ok /\ Len(tql.predicates) = 1
     /\ tql.predicates[1].value.kind \in {"string", "array"})
    => LET p == tql.predicates[1]
           prefix == p.attribute \o <<" ">> \o OperatorText(p.operator) \o <<" ">>
           text == FormatValue(p.value)
       IN  /\ ~TrackerInsideAfter(prefix)
           /\ ~TrackerInsideAfter(prefix \o text)
           /\ tqlOut.str = ReplaceSpacesOutsideQuotes(prefix) \o text
           /\ ReplaceSpacesOutsideQuotes(prefix \o text \o AndMore)
                = tqlOut.str \o AndMoreEncoded
           /\ p.value.kind = "string"
                => IF NeedsQuotes(p.value.str)
                   THEN Head(text) = "\"" /\ Unquote(text) = p.value.str
                   ELSE text = p.value.str
           /\ p.value.kind = "array"
                => \A i \in 1..Len(p.value.items) :
                      (p.value.items[i].kind = "string" /\ NeedsQuotes(p.value.items[i].str))
                         => Unquote(FormatSingleValue(p.value.items[i])) = p.value.items[i].str

C39_Witness ==
    /\ tqlCall = "toString(true)"
    /\ tqlOut.ok
    /\ Len(tql.predicates) = 1
    /\ tql.predicates[1].value = StrVal(<<"\"", " ">>)
    /\ tqlOut.str = StatusAttr \o <<"~", "E", "Q", "~", "\"", "\\", "\"", " ", "\"">>

====
